---------------------------- MODULE Spec2Model ----------------------------
(***************************************************************************)
(* A model of the notebook scientific-computing/xarray.ipynb: one kernel   *)
(* session that evaluates the notebook's code cells top to bottom.         *)
(*                                                                         *)
(* State: the kernel namespace (ns), the displayed cell results (Out), the *)
(* figure drawn by the cell that ran last (fig), the outcome of that cell  *)
(* (last), the position in the notebook (pc) and the files on disk (disk). *)
(*                                                                         *)
(* Numbers are exact rationals <<n, d>> (d > 0, lowest terms); the missing *)
(* value NaN is <<0, 0>>.  Angles in radians are rational multiples of pi, *)
(* sines and cosines are tabulated to three decimals, and lengths are      *)
(* counted in Earth radii, so that every quantity is an exact rational.    *)
(* A labeled array keeps its dimension names, its shape, one coordinate    *)
(* vector per indexed dimension and its values, a function of the index    *)
(* tuples (1-based).  Scalar (non-index) coordinates are left out.         *)
(***************************************************************************)
EXTENDS Integers, Sequences, FiniteSets, TLC

(***************************************************************************)
(* Bounds and program constants.                                           *)
(***************************************************************************)
\* number of per-year files the data directory can hold
MaxYears == 3
\* year of the single file opened by xr.open_dataset
FirstYear == 1960
\* rolling(time=24, ...)
Window == 24
\* np.linspace(-np.pi, np.pi, 19)
NumX == 19

(***************************************************************************)
(* Exact rational arithmetic with a missing value.                         *)
(***************************************************************************)
NaN == <<0, 0>>

IsNaN(v) == v[2] = 0

Abs(n) == IF n < 0 THEN -n ELSE n

RECURSIVE GCD(_, _)
GCD(a, b) == IF b = 0 THEN a ELSE GCD(b, a % b)

Rat(n, d) ==
    IF d = 0 THEN NaN
    ELSE LET g == GCD(Abs(n), Abs(d))
             s == IF d < 0 THEN -1 ELSE 1
         IN  <<(s * n) \div g, (s * d) \div g>>

Whole(n) == <<n, 1>>

\* sums and products cancel common factors before they multiply
RAdd(a, b) ==
    IF IsNaN(a) \/ IsNaN(b) THEN NaN
    ELSE LET g == GCD(a[2], b[2])
         IN  Rat(a[1] * (b[2] \div g) + b[1] * (a[2] \div g), (a[2] \div g) * b[2])

RNeg(a) == <<-a[1], a[2]>>

RSub(a, b) == IF IsNaN(a) \/ IsNaN(b) THEN NaN ELSE RAdd(a, RNeg(b))

RMul(a, b) ==
    IF IsNaN(a) \/ IsNaN(b) THEN NaN
    ELSE LET g1 == GCD(Abs(a[1]), b[2])
             g2 == GCD(Abs(b[1]), a[2])
         IN  Rat((a[1] \div g1) * (b[1] \div g2), (a[2] \div g2) * (b[2] \div g1))

\* float division: x / 0 is inf or nan, neither a number of the model
RDiv(a, b) ==
    IF IsNaN(a) \/ IsNaN(b) \/ b[1] = 0 THEN NaN
    ELSE RMul(a, IF b[1] < 0 THEN <<-b[2], -b[1]>> ELSE <<b[2], b[1]>>)

RLeq(a, b) == a[1] * b[2] <= b[1] * a[2]

(***************************************************************************)
(* Labeled arrays (xarray.DataArray).                                      *)
(***************************************************************************)
RECURSIVE Indices(_)
Indices(shape) ==
    IF shape = <<>> THEN {<<>>}
    ELSE {<<i>> \o r : i \in 1..Head(shape), r \in Indices(Tail(shape))}

DataArray(dims, shape, coords, values) ==
    [kind |-> "DataArray", dims |-> dims, shape |-> shape,
     coords |-> coords, values |-> values]

NoCoords == [d \in {} |-> <<>>]

InSeq(s, v) == \E k \in 1..Len(s) : s[k] = v

Pos(s, v) == CHOOSE k \in 1..Len(s) : s[k] = v

AllDimsOf(dims) == {dims[k] : k \in 1..Len(dims)}

\* the positions of the dimensions of a that are not in drop
KeptAxes(a, drop) == SelectSeq([k \in 1..Len(a.dims) |-> k],
                               LAMBDA k : a.dims[k] \notin drop)

Project(i, axes) == [k \in 1..Len(axes) |-> i[axes[k]]]

RestrictCoords(coords, dims) ==
    [d \in (DOMAIN coords) \cap {dims[k] : k \in 1..Len(dims)} |-> coords[d]]

\* skipna sum of the values v at the indices idx[lo..hi]: missing values
\* count as 0
RECURSIVE NanSumRange(_, _, _, _)
NanSumRange(idx, v, lo, hi) ==
    IF lo > hi THEN Whole(0)
    ELSE IF lo = hi THEN (IF IsNaN(v[idx[lo]]) THEN Whole(0) ELSE v[idx[lo]])
    ELSE LET mid == (lo + hi) \div 2
         IN  RAdd(NanSumRange(idx, v, lo, mid), NanSumRange(idx, v, mid + 1, hi))

\* skipna sum of the values v at the indices in the sequence idx
NanSum(idx, v) == NanSumRange(idx, v, 1, Len(idx))

NanCount(idx, v) == Cardinality({k \in 1..Len(idx) : ~IsNaN(v[idx[k]])})

\* skipna mean: the mean of the values present, NaN when there is none
NanMean(idx, v) == RDiv(NanSum(idx, v), Whole(NanCount(idx, v)))

\* ReducedDims that keeps the names of the reduced dimensions
ReducedDims_keep(a, drop) == a.dims

\* the dimensions left by a reduction over the dimensions in drop
ReducedDims(a, drop) == Project(a.dims, KeptAxes(a, drop))

\* the index tuple number k (from 0, row-major) of an array of this shape
RECURSIVE Unravel(_, _)
Unravel(k, shape) ==
    IF shape = <<>> THEN <<>>
    ELSE LET n == shape[Len(shape)]
         IN  Append(Unravel(k \div n, SubSeq(shape, 1, Len(shape) - 1)), (k % n) + 1)

RECURSIVE Product(_)
Product(shape) == IF shape = <<>> THEN 1 ELSE Head(shape) * Product(Tail(shape))

\* the indices of a that the reduction over drop folds into element j
Sources(a, drop, j) ==
    LET kept == KeptAxes(a, drop)
        gone == KeptAxes(a, AllDimsOf(a.dims) \ drop)
        gshape == Project(a.shape, gone)
    IN  [k \in 1..Product(gshape) |->
            LET u == Unravel(k - 1, gshape)
            IN  [ax \in 1..Len(a.dims) |->
                    IF a.dims[ax] \in drop THEN u[Pos(gone, ax)]
                    ELSE j[Pos(kept, ax)]]]

\* the aggregate how ("sum" or "mean") of the values v at the indices idx
Aggregate(how, idx, v) == IF how = "sum" THEN NanSum(idx, v) ELSE NanMean(idx, v)

\* a.sum(dim=drop) / a.mean(dim=drop)
Reduce(a, drop, how) ==
    LET shape == Project(a.shape, KeptAxes(a, drop))
        dims == ReducedDims(a, drop)
    IN  DataArray(dims, shape, RestrictCoords(a.coords, dims),
                  [j \in Indices(shape) |->
                      Aggregate(how, Sources(a, drop, j), a.values)])

AllDims(a) == AllDimsOf(a.dims)

sum(a, drop) == Reduce(a, drop, "sum")

mean(a, drop) == Reduce(a, drop, "mean")

\* a[i] along the first dimension (0-based, as in Python)
getitem_int(a, i) ==
    LET dims == Tail(a.dims)
        shape == Tail(a.shape)
    IN  DataArray(dims, shape, RestrictCoords(a.coords, dims),
                  [j \in Indices(shape) |-> a.values[<<i + 1>> \o j]])

\* a[:stop] along the first dimension
getitem_slice(a, stop) ==
    LET n == IF stop < a.shape[1] THEN stop ELSE a.shape[1]
        shape == <<n>> \o Tail(a.shape)
        d == a.dims[1]
    IN  DataArray(a.dims, shape,
                  [c \in DOMAIN a.coords |->
                      IF c = d THEN SubSeq(a.coords[c], 1, n) ELSE a.coords[c]],
                  [j \in Indices(shape) |-> a.values[j]])

\* a.sel(dim=label) finds the label in the index of dim
sel_ok(a, dim, label) ==
    /\ dim \in AllDims(a)
    /\ dim \in DOMAIN a.coords
    /\ InSeq(a.coords[dim], label)

\* sel that keeps the selected dimension, with length 1
sel_keepdim(a, dim, label) ==
    LET ax == Pos(a.dims, dim)
        p == Pos(a.coords[dim], label)
        shape == [a.shape EXCEPT ![ax] = 1]
    IN  DataArray(a.dims, shape,
                  [c \in DOMAIN a.coords |->
                      IF c = dim THEN <<label>> ELSE a.coords[c]],
                  [j \in Indices(shape) |-> a.values[[j EXCEPT ![ax] = p]]])

sel(a, dim, label) ==
    LET ax == Pos(a.dims, dim)
        p == Pos(a.coords[dim], label)
        axes == KeptAxes(a, {dim})
        dims == Project(a.dims, axes)
        shape == Project(a.shape, axes)
    IN  DataArray(dims, shape, RestrictCoords(a.coords, dims),
                  [j \in Indices(shape) |->
                      a.values[SubSeq(j, 1, ax - 1) \o <<p>>
                               \o SubSeq(j, ax, Len(j))]])

\* a.sel(dim=slice(lo, hi)): the labels lo <= l <= hi of a 1-D array
sel_slice(a, lo, hi) ==
    LET d == a.dims[1]
        keep == SelectSeq([k \in 1..a.shape[1] |-> k],
                          LAMBDA k : RLeq(lo, a.coords[d][k]) /\ RLeq(a.coords[d][k], hi))
    IN  DataArray(a.dims, <<Len(keep)>>,
                  [c \in DOMAIN a.coords |->
                      [k \in 1..Len(keep) |-> a.coords[c][keep[k]]]],
                  [j \in Indices(<<Len(keep)>>) |-> a.values[<<keep[j[1]]>>]])

\* a.transpose(): the dimensions in reverse order
Reverse(s) == [k \in 1..Len(s) |-> s[Len(s) + 1 - k]]

transpose(a) ==
    DataArray(Reverse(a.dims), Reverse(a.shape), a.coords,
              [j \in Indices(Reverse(a.shape)) |-> a.values[Reverse(j)]])

\* the array a with new values at the same indices
WithValues(a, values) == [a EXCEPT !.values = values]

\* Broadcasting of two arrays by dimension name: the dimensions of a, then
\* those of b that a lacks; on a shared dimension the labels both have
\* (inner join), in a's order.
BroadcastDims(a, b) == a.dims \o SelectSeq(b.dims, LAMBDA d : d \notin AllDims(a))

JoinCoord(a, b, d) ==
    IF d \in AllDims(a) /\ d \in AllDims(b)
    THEN SelectSeq(a.coords[d], LAMBDA l : InSeq(b.coords[d], l))
    ELSE IF d \in AllDims(a) THEN a.coords[d] ELSE b.coords[d]

\* the index into a of the element labelled as element j of the result
Locate(a, dims, coords, j) ==
    [k \in 1..Len(a.dims) |->
        Pos(a.coords[a.dims[k]], coords[a.dims[k]][j[Pos(dims, a.dims[k])]])]

\* the elementwise operations of the notebook
Apply2(op, v, w) ==
    CASE op = "mul" -> RMul(v, w)
      [] op = "sub" -> RSub(v, w)
      [] op = "div" -> RDiv(v, w)
      [] op = "where" -> (IF w = Whole(1) THEN v ELSE NaN)

broadcast2(a, b, op) ==
    LET dims == BroadcastDims(a, b)
        coords == [d \in {dims[k] : k \in 1..Len(dims)} |-> JoinCoord(a, b, d)]
        shape == [k \in 1..Len(dims) |-> Len(coords[dims[k]])]
    IN  DataArray(dims, shape, coords,
                  [j \in Indices(shape) |->
                      Apply2(op, a.values[Locate(a, dims, coords, j)],
                             b.values[Locate(b, dims, coords, j)])])

mul(a, b) == broadcast2(a, b, "mul")

sub(a, b) == broadcast2(a, b, "sub")

div(a, b) == broadcast2(a, b, "div")

\* a.notnull(): 1 where a value is present, 0 where it is missing
True == Whole(1)

False == Whole(0)

notnull(a) ==
    WithValues(a, [i \in DOMAIN a.values |-> IF IsNaN(a.values[i]) THEN False ELSE True])

\* a.where(cond): a where cond is true, NaN elsewhere
where(a, cond) == broadcast2(a, cond, "where")

(***************************************************************************)
(* Time coordinates are dates <<year, month, day>>.                        *)
(***************************************************************************)
year(t) == t[1]

month(t) == t[2]

SeqToSet(s) == {s[k] : k \in 1..Len(s)}

\* the sorted distinct values of keys, all of them in lo..hi
SortedUnique(keys, lo, hi) ==
    SelectSeq([k \in 1..(hi - lo + 1) |-> lo + k - 1], LAMBDA v : v \in keys)

\* the index tuple i with its component ax replaced by p
WithAxis(i, ax, p) == [i EXCEPT ![ax] = p]

\* the group of a time stamp: its calendar month or its year
GroupKey(by, t) == IF by = "month" THEN month(t) ELSE year(t)

\* Split-apply-combine along time: the result has one slice per entry of
\* keys, labelled labels along newdim; slice k holds the mean over the time
\* steps whose group is keys[k].
GroupMean(a, by, newdim, keys, labels) ==
    LET ax == Pos(a.dims, "time")
        dims == [a.dims EXCEPT ![ax] = newdim]
        shape == [a.shape EXCEPT ![ax] = Len(labels)]
        coords == [d \in ((DOMAIN a.coords) \ {"time"}) \cup {newdim} |->
                      IF d = newdim THEN labels ELSE a.coords[d]]
    IN  DataArray(dims, shape, coords,
                  [j \in Indices(shape) |->
                      LET members == SelectSeq([q \in 1..a.shape[ax] |-> q],
                              LAMBDA q : GroupKey(by, a.coords["time"][q]) = keys[j[ax]])
                      IN  NanMean([k \in 1..Len(members) |-> WithAxis(j, ax, members[k])],
                                  a.values)])

\* groupby_month_mean with every group shifted by one month
groupby_month_mean_shifted(a) ==
    LET months == SortedUnique({month(t) : t \in SeqToSet(a.coords["time"])}, 1, 12)
    IN  GroupMean(a, "month", "month",
                  [k \in 1..Len(months) |-> (months[k] % 12) + 1], months)

\* a.groupby('time.month').mean(dim='time')
groupby_month_mean(a) ==
    LET months == SortedUnique({month(t) : t \in SeqToSet(a.coords["time"])}, 1, 12)
    IN  GroupMean(a, "month", "month", months, months)

\* a.resample(time='A').mean(dim='time'): one bin per calendar year from
\* the first to the last time stamp, labelled by the year's last day
YearEnd(y) == <<y, 12, 31>>

\* resample_annual_mean with bins for the years that have data only
resample_years_present(a) ==
    LET times == a.coords["time"]
        years == SortedUnique({year(t) : t \in SeqToSet(times)},
                              year(times[1]), year(times[Len(times)]))
    IN  GroupMean(a, "year", "time", years, [k \in 1..Len(years) |-> YearEnd(years[k])])

resample_annual_mean(a) ==
    LET times == a.coords["time"]
        first == year(times[1])
        last == year(times[Len(times)])
        years == [k \in 1..(last - first + 1) |-> first + k - 1]
    IN  GroupMean(a, "year", "time", years, [k \in 1..Len(years) |-> YearEnd(years[k])])

\* a.rolling(time=window, center=True).mean(): position p holds the mean of
\* the window p - window \div 2 .. p - window \div 2 + window - 1 when the
\* whole window lies inside the series and holds no missing value
\* (min_periods = window), NaN otherwise
RollingWindow(p, window) ==
    (p - (window \div 2))..(p - (window \div 2) + window - 1)

\* rolling_mean that keeps the positions with a full window only
rolling_mean_valid(a, dim, window) ==
    LET ax == Pos(a.dims, dim)
        n == a.shape[ax]
        m == IF n >= window THEN n - window + 1 ELSE 0
        shape == [a.shape EXCEPT ![ax] = m]
        off == window \div 2
    IN  DataArray(a.dims, shape,
                  [c \in DOMAIN a.coords |->
                      IF c = dim THEN SubSeq(a.coords[c], off + 1, off + m)
                      ELSE a.coords[c]],
                  [j \in Indices(shape) |->
                      LET S == [k \in 1..window |-> WithAxis(j, ax, j[ax] + k - 1)]
                      IN  IF NanCount(S, a.values) >= window
                          THEN NanMean(S, a.values) ELSE NaN])

rolling_mean(a, dim, window) ==
    LET ax == Pos(a.dims, dim)
        n == a.shape[ax]
    IN  [a EXCEPT !.values =
            [j \in DOMAIN a.values |->
                LET W == RollingWindow(j[ax], window)
                    inside == SelectSeq([q \in 1..n |-> q], LAMBDA q : q \in W)
                    S == [k \in 1..Len(inside) |-> WithAxis(j, ax, inside[k])]
                IN  IF NanCount(S, a.values) >= window
                    THEN NanMean(S, a.values) ELSE NaN]]

(***************************************************************************)
(* numpy on plain arrays (sequences of numbers).                           *)
(***************************************************************************)
ndarray(values) == [kind |-> "ndarray", values |-> values]

\* np.pi, and np.deg2rad: angles are rational multiples of pi
np_pi == Whole(1)

deg2rad(v) == RDiv(v, Whole(180))

Degrees(v) == (180 * v[1]) \div v[2]

\* np.linspace(lo, hi, n)
linspace(lo, hi, n) ==
    ndarray([k \in 1..n |->
                RAdd(lo, RMul(Whole(k - 1), RDiv(RSub(hi, lo), Whole(n - 1))))])

RECURSIVE Sin1000(_)
Sin1000(d) ==
    IF d < 0 THEN -Sin1000(-d)
    ELSE IF d > 90 THEN Sin1000(180 - d)
    ELSE CASE d = 0 -> 0 [] d = 10 -> 174 [] d = 20 -> 342 [] d = 30 -> 500
           [] d = 40 -> 643 [] d = 50 -> 766 [] d = 60 -> 866 [] d = 70 -> 940
           [] d = 80 -> 985 [] d = 90 -> 1000

\* np.sin and np.cos of an angle that is a multiple of 10 degrees
np_sin(v) == Rat(Sin1000(Degrees(v)), 1000)

np_cos(v) == Rat(Sin1000(90 - Degrees(v)), 1000)

(***************************************************************************)
(* The files on disk.  disk.years: the years y with a file                 *)
(* NOAA_NCDC_ERSST_v3b_SST-y.nc in ../datasets/sst; disk.csv: whether      *)
(* ../datasets/sst_indices.csv exists; disk.lons: the longitude grid;      *)
(* disk.field and disk.nulls: the content of the sst variable.             *)
(***************************************************************************)
Years == FirstYear..(FirstYear + MaxYears - 1)

Lats == <<10, 40>>

LonGrids == {<<180, 300>>, <<180, 240>>}

Fields == {"zonal", "varying"}

Nulls == {"none", "land", "ice", "gap"}

\* every set of year files with every content on the grid the notebook
\* expects, and every set of year files with a missing reference file or a
\* grid without the longitude 300
Disks ==
    [years : SUBSET Years, csv : {TRUE}, lons : {<<180, 300>>},
     field : Fields, nulls : Nulls]
    \cup {d \in [years : SUBSET Years, csv : BOOLEAN, lons : LonGrids,
                 field : {"varying"}, nulls : {"land"}] :
             ~d.csv \/ d.lons # <<180, 300>>}

\* the value the files hold for a month and a grid point
FileIsNull(d, m, lat, lon) ==
    CASE d.nulls = "none" -> FALSE
      [] d.nulls = "land" -> lat = 40 /\ lon = 180
      [] d.nulls = "ice"  -> lat = 40 /\ (lon = 180 \/ m <= 3)
      [] d.nulls = "gap"  -> lat = 10 /\ lon = 180 /\ m \in 7..9

FileValue(d, y, m, lat, lon) ==
    IF FileIsNull(d, m, lat, lon) THEN NaN
    ELSE CASE d.field = "zonal"   -> Whole(30 - (lat \div 2))
           [] d.field = "varying" ->
                Whole(10 + ((3 * m + (lat \div 10) + (lon \div 60)
                             + 2 * (y - FirstYear)) % 7))

\* the monthly time stamps of the files of the given years, in file order
FileTimes(ys) == [k \in 1..(12 * Len(ys)) |->
                     <<ys[((k - 1) \div 12) + 1], ((k - 1) % 12) + 1, 15>>]

\* the Dataset decoded from the files of the years ys (ascending)
Decode(d, ys, chunked) ==
    LET times == FileTimes(ys)
        coords == [time |-> times, lat |-> Lats, lon |-> d.lons]
        shape == <<Len(times), Len(Lats), Len(d.lons)>>
    IN  [kind |-> "Dataset", chunked |-> chunked, coords |-> coords,
         sst |-> DataArray(<<"time", "lat", "lon">>, shape, coords,
                    [i \in Indices(shape) |->
                        FileValue(d, year(times[i[1]]), month(times[i[1]]),
                                  Lats[i[2]], d.lons[i[3]])])]

\* xr.open_dataset("../datasets/sst/NOAA_NCDC_ERSST_v3b_SST-1960.nc")
open_dataset_ok(d) == FirstYear \in d.years

open_dataset(d) == Decode(d, <<FirstYear>>, FALSE)

\* xr.open_mfdataset("../datasets/sst/*.nc"): the files the pattern
\* matches, in name order, joined along time; no match is an error
open_mfdataset_ok(d) == d.years # {}

open_mfdataset(d) ==
    Decode(d, SortedUnique(d.years, FirstYear, FirstYear + MaxYears - 1), TRUE)

\* load that reads the chunk of the first file only
load_first_chunk(ds) ==
    [ds EXCEPT !.chunked = FALSE,
               !.coords["time"] = SubSeq(@, 1, 12),
               !.sst = getitem_slice(@, 12)]

\* ds.load() reads the chunks into memory; the value it returns
load(ds) == [ds EXCEPT !.chunked = FALSE]

\* ds.lat: a coordinate as an array over its own dimension
coordinate(ds, name) ==
    DataArray(<<name>>, <<Len(ds.coords[name])>>,
              [c \in {name} |-> ds.coords[name]],
              [i \in Indices(<<Len(ds.coords[name])>>) |->
                  Whole(ds.coords[name][i[1]])])

\* pd.read_csv("../datasets/sst_indices.csv", index_col='time')['NINO3.4']
read_csv_ok(d) == d.csv

read_csv(d) ==
    [kind |-> "Series", name |-> "NINO3.4",
     index |-> [k \in 1..6 |-> <<FirstYear, k, 15>>],
     values |-> [k \in 1..6 |-> Rat(k - 3, 10)]]

\* series.head(): the first five rows
head(s) ==
    LET n == IF Len(s.index) < 5 THEN Len(s.index) ELSE 5
    IN  [s EXCEPT !.index = SubSeq(s.index, 1, n), !.values = SubSeq(s.values, 1, n)]

(***************************************************************************)
(* The kernel session.                                                     *)
(***************************************************************************)
VARIABLES
    pc,     \* the code cell to run next, 1..NumCells + 1
    ns,     \* the namespace: name -> value, Unbound for a name not bound
    Out,    \* the displayed result of each cell that ended in an expression
    fig,    \* the figure drawn by the cell that ran last
    last,   \* that cell, its error and the number of statements it completed
    disk    \* the files on disk

vars == <<pc, ns, Out, fig, last, disk>>

Names == {"np", "warnings", "xr", "plt", "x", "da_f", "f", "ds", "sst",
          "sst_time_mean", "sst_zonal_mean", "sst_time_and_zonal_mean",
          "R", "dphi", "dlambda", "dA", "pixel_area", "total_ocean_area",
          "sst_weighted_mean", "ccrs", "ax", "ds_all", "sst_clim", "sst_ts",
          "sst_ts_annual", "sst_ts_rolling", "pd", "noaa_nino34"}

Unbound == [kind |-> "unbound"]

Bound(n, name) == n[name].kind # "unbound"

Module(name) == [kind |-> "module", name |-> name]

Float(v) == [kind |-> "float", v |-> v]

Artist == [kind |-> "artist"]

NoOut == [kind |-> "none"]

NoErr == "ok"

NoFig == [title |-> "", layers |-> <<>>]

\* the code cells of the notebook, in order
NumCells == 42

\* the cells that hold a comment only (exercises, %load lines)
CommentCells == {11, 12, 13, 14, 29, 30, 32, 40, 41}

\* the statements of each code cell, in order: an assignment to a name, an
\* expression statement, a plot call, the title call, any other call
Statements(c) ==
    CASE c = 1 -> <<<<"call", "">>, <<"assign", "np">>, <<"assign", "warnings">>,
                    <<"call", "">>, <<"assign", "xr">>, <<"assign", "plt">>,
                    <<"call", "">>>>
      [] c = 2 -> <<<<"assign", "x">>, <<"assign", "da_f">>>>
      [] c \in {3, 4, 5} -> <<<<"assign", "f">>, <<"expr", "">>>>
      [] c \in {6, 10, 17, 18, 19, 24} -> <<<<"plot", "">>>>
      [] c \in {7, 8, 9, 20, 26} -> <<<<"expr", "">>>>
      [] c \in CommentCells -> <<>>
      [] c = 15 -> <<<<"assign", "ds">>, <<"expr", "">>>>
      [] c = 16 -> <<<<"assign", "sst">>, <<"assign", "sst">>, <<"expr", "">>>>
      [] c = 21 -> <<<<"assign", "sst_time_mean">>, <<"plot", "">>>>
      [] c = 22 -> <<<<"assign", "sst_zonal_mean">>, <<"plot", "">>>>
      [] c = 23 -> <<<<"assign", "sst_time_and_zonal_mean">>, <<"plot", "">>>>
      [] c = 25 -> <<<<"assign", "R">>, <<"assign", "dphi">>, <<"assign", "dlambda">>,
                     <<"assign", "dA">>, <<"plot", "">>>>
      [] c = 27 -> <<<<"assign", "pixel_area">>, <<"plot", "">>>>
      [] c = 28 -> <<<<"assign", "total_ocean_area">>,
                     <<"assign", "sst_weighted_mean">>, <<"plot", "">>>>
      [] c = 31 -> <<<<"assign", "ccrs">>, <<"call", "">>, <<"assign", "ax">>,
                     <<"call", "">>, <<"plot", "">>>>
      [] c \in {33, 34} -> <<<<"assign", "ds_all">>, <<"expr", "">>>>
      [] c = 35 -> <<<<"assign", "sst_clim">>, <<"expr", "">>>>
      [] c = 36 -> <<<<"plot", "">>, <<"title", "">>>>
      [] c = 37 -> <<<<"assign", "sst_ts">>, <<"assign", "sst_ts_annual">>,
                     <<"expr", "">>>>
      [] c = 38 -> <<<<"plot", "">>, <<"plot", "">>>>
      [] c = 39 -> <<<<"assign", "sst_ts_rolling">>, <<"plot", "">>, <<"plot", "">>>>
      [] c = 42 -> <<<<"assign", "pd">>, <<"assign", "noaa_nino34">>, <<"expr", "">>>>

(***************************************************************************)
(* A cell runs its statements in order.  s is the session while the cell   *)
(* runs: the namespace, the value of the last expression statement, the    *)
(* figure, the error raised, the number of statements completed and the    *)
(* results displayed by earlier cells, which Out still refers to.          *)
(***************************************************************************)
Begin == [ns |-> ns, out |-> NoOut, fig |-> NoFig, err |-> NoErr, n |-> 0,
          outs |-> Out]

Raise(s, e) == [s EXCEPT !.err = e]

\* name = value
Assign(s, name, v) == [s EXCEPT !.ns[name] = v, !.n = @ + 1, !.out = NoOut]

\* an expression statement: its value is displayed if it ends the cell
Display(s, v) == [s EXCEPT !.out = v, !.n = @ + 1]

\* ds.load() loads the dataset object in place before returning it: every
\* reference to that object, a name or a displayed result, sees it loaded.
\* A chunked dataset comes from the one open_mfdataset call only, so the
\* references to the object are those that hold its value.
load_inplace(s, ds) ==
    [s EXCEPT !.ns = [name \in DOMAIN s.ns |->
                         IF s.ns[name].kind = ds.kind /\ s.ns[name] = ds
                         THEN load(ds) ELSE s.ns[name]],
              !.outs = [c \in DOMAIN s.outs |->
                           IF s.outs[c].kind = ds.kind /\ s.outs[c] = ds
                           THEN load(ds) ELSE s.outs[c]]]

\* a call made for its effect outside the namespace
Call(s) == [s EXCEPT !.n = @ + 1, !.out = NoOut]

\* a.plot(...): draws a on the current figure and returns the artist
Plot(s, a) == [s EXCEPT !.fig.layers = Append(@, a), !.out = Artist, !.n = @ + 1]

\* plt.title(t)
Title(s, t) == [s EXCEPT !.fig.title = t, !.out = Artist, !.n = @ + 1]

\* Stmt that goes on to the next statement after an error
Stmt_continue(s, reads, ok, e, effect) ==
    IF \E r \in reads : ~Bound(s.ns, r) THEN Raise(s, "NameError")
    ELSE IF ~ok THEN Raise(s, e)
    ELSE effect

\* One statement after the session s: nothing once an error is raised;
\* NameError when a name it reads is not bound; error e when the library
\* call fails; otherwise its effect.
Stmt(s, reads, ok, e, effect) ==
    IF s.err # NoErr THEN s
    ELSE IF \E r \in reads : ~Bound(s.ns, r) THEN Raise(s, "NameError")
    ELSE IF ~ok THEN Raise(s, e)
    ELSE effect

\* the cell is over: the kernel keeps what its statements did
Finish(s) ==
    /\ ns' = s.ns
    /\ Out' = IF s.err = NoErr /\ s.out.kind # "none"
              THEN (pc :> s.out) @@ s.outs ELSE s.outs
    /\ fig' = s.fig
    /\ last' = [cell |-> pc, err |-> s.err, n |-> s.n]
    /\ pc' = pc + 1
    /\ UNCHANGED disk

Init ==
    /\ pc = 1
    /\ ns = [n \in Names |-> Unbound]
    /\ Out = <<>>
    /\ fig = NoFig
    /\ last = [cell |-> 0, err |-> NoErr, n |-> 0]
    /\ disk \in Disks

(***************************************************************************)
(* I. Xarray data structures                                               *)
(***************************************************************************)
\* %matplotlib inline; import numpy as np; import warnings; ...
In1 ==
    /\ pc = 1
    /\ LET s0 == Begin
           s1 == Stmt(s0, {}, TRUE, NoErr, Call(s0))
           s2 == Stmt(s1, {}, TRUE, NoErr, Assign(s1, "np", Module("numpy")))
           s3 == Stmt(s2, {}, TRUE, NoErr, Assign(s2, "warnings", Module("warnings")))
           s4 == Stmt(s3, {"warnings"}, TRUE, NoErr, Call(s3))
           s5 == Stmt(s4, {}, TRUE, NoErr, Assign(s4, "xr", Module("xarray")))
           s6 == Stmt(s5, {}, TRUE, NoErr, Assign(s5, "plt", Module("matplotlib.pyplot")))
           s7 == Stmt(s6, {"plt"}, TRUE, NoErr, Call(s6))
       IN  Finish(s7)

\* x = np.linspace(-np.pi, np.pi, 19); da_f = np.sin(x)
In2 ==
    /\ pc = 2
    /\ LET s0 == Begin
           s1 == Stmt(s0, {"np"}, TRUE, NoErr,
                      Assign(s0, "x", linspace(RNeg(np_pi), np_pi, NumX)))
           s2 == Stmt(s1, {"np", "x"}, TRUE, NoErr,
                      Assign(s1, "da_f",
                             ndarray([k \in 1..Len(s1.ns.x.values) |->
                                         np_sin(s1.ns.x.values[k])])))
       IN  Finish(s2)

\* xr.DataArray(data, dims, coords) of a 1-D array
xr_DataArray(data, dims, coords) ==
    DataArray(dims, <<Len(data.values)>>, coords,
              [i \in Indices(<<Len(data.values)>>) |-> data.values[i[1]]])

\* f = xr.DataArray(da_f); f
In3 ==
    /\ pc = 3
    /\ LET s0 == Begin
           s1 == Stmt(s0, {"xr", "da_f"}, TRUE, NoErr,
                      Assign(s0, "f", xr_DataArray(s0.ns.da_f, <<"dim_0">>, NoCoords)))
           s2 == Stmt(s1, {"f"}, TRUE, NoErr, Display(s1, s1.ns.f))
       IN  Finish(s2)

\* f = xr.DataArray(da_f, dims=['x']); f
In4 ==
    /\ pc = 4
    /\ LET s0 == Begin
           s1 == Stmt(s0, {"xr", "da_f"}, TRUE, NoErr,
                      Assign(s0, "f", xr_DataArray(s0.ns.da_f, <<"x">>, NoCoords)))
           s2 == Stmt(s1, {"f"}, TRUE, NoErr, Display(s1, s1.ns.f))
       IN  Finish(s2)

\* f = xr.DataArray(da_f, dims=['x'], coords={'x': x}); f
In5 ==
    /\ pc = 5
    /\ LET s0 == Begin
           s1 == Stmt(s0, {"xr", "da_f", "x"}, TRUE, NoErr,
                      Assign(s0, "f", xr_DataArray(s0.ns.da_f, <<"x">>,
                                                   [c \in {"x"} |-> s0.ns.x.values])))
           s2 == Stmt(s1, {"f"}, TRUE, NoErr, Display(s1, s1.ns.f))
       IN  Finish(s2)

\* f.plot(marker='o')
In6 ==
    /\ pc = 6
    /\ LET s0 == Begin
           s1 == Stmt(s0, {"f"}, TRUE, NoErr, Plot(s0, s0.ns.f))
       IN  Finish(s1)

\* a[i] raises IndexError past the end of the first dimension
getitem_ok(a, i) == Len(a.shape) > 0 /\ i < a.shape[1]

\* # get the 10th item
\* f[10]
In7 ==
    /\ pc = 7
    /\ LET s0 == Begin
           s1 == Stmt(s0, {"f"}, getitem_ok(s0.ns.f, 10), "IndexError",
                      Display(s0, getitem_int(s0.ns.f, 10)))
       IN  Finish(s1)

\* # get the first 10 items
\* f[:10]
In8 ==
    /\ pc = 8
    /\ LET s0 == Begin
           s1 == Stmt(s0, {"f"}, TRUE, NoErr, Display(s0, getitem_slice(s0.ns.f, 10)))
       IN  Finish(s1)

\* f.sel(x=0)
In9 ==
    /\ pc = 9
    /\ LET s0 == Begin
           s1 == Stmt(s0, {"f"}, sel_ok(s0.ns.f, "x", Whole(0)), "KeyError",
                      Display(s0, sel(s0.ns.f, "x", Whole(0))))
       IN  Finish(s1)

\* f.sel(x=slice(0, np.pi)).plot()
In10 ==
    /\ pc = 10
    /\ LET s0 == Begin
           s1 == Stmt(s0, {"f", "np"}, "x" \in DOMAIN s0.ns.f.coords, "KeyError",
                      Plot(s0, sel_slice(s0.ns.f, Whole(0), np_pi)))
       IN  Finish(s1)

\* # YOUR CODE GOES HERE  /  # %load solutions/xarray/exerciseN.py
InComment ==
    /\ pc \in CommentCells
    /\ Finish(Begin)

(***************************************************************************)
(* II. Multidimensional Data                                               *)
(***************************************************************************)
\* ds = xr.open_dataset("../datasets/sst/NOAA_NCDC_ERSST_v3b_SST-1960.nc"); ds
In15 ==
    /\ pc = 15
    /\ LET s0 == Begin
           s1 == Stmt(s0, {"xr"}, open_dataset_ok(disk), "FileNotFoundError",
                      Assign(s0, "ds", open_dataset(disk)))
           s2 == Stmt(s1, {"ds"}, TRUE, NoErr, Display(s1, s1.ns.ds))
       IN  Finish(s2)

\* sst = ds['sst']; sst = ds.sst; sst
In16 ==
    /\ pc = 16
    /\ LET s0 == Begin
           s1 == Stmt(s0, {"ds"}, TRUE, NoErr, Assign(s0, "sst", s0.ns.ds.sst))
           s2 == Stmt(s1, {"ds"}, TRUE, NoErr, Assign(s1, "sst", s1.ns.ds.sst))
           s3 == Stmt(s2, {"sst"}, TRUE, NoErr, Display(s2, s2.ns.sst))
       IN  Finish(s3)

\* the date a label such as '1960-06-15' names
Date(y, m, d) == <<y, m, d>>

\* sst.sel(time='1960-06-15').plot(vmin=-2, vmax=30)
In17 ==
    /\ pc = 17
    /\ LET s0 == Begin
           s1 == Stmt(s0, {"sst"}, sel_ok(s0.ns.sst, "time", Date(1960, 6, 15)),
                      "KeyError",
                      Plot(s0, sel(s0.ns.sst, "time", Date(1960, 6, 15))))
       IN  Finish(s1)

\* sst.sel(lon=180).transpose().plot()
In18 ==
    /\ pc = 18
    /\ LET s0 == Begin
           s1 == Stmt(s0, {"sst"}, sel_ok(s0.ns.sst, "lon", 180), "KeyError",
                      Plot(s0, transpose(sel(s0.ns.sst, "lon", 180))))
       IN  Finish(s1)

\* a.sel(lon=lon, lat=lat)
sel_point_ok(a, lon, lat) == sel_ok(a, "lon", lon) /\ sel_ok(a, "lat", lat)

sel_point(a, lon, lat) == sel(sel(a, "lon", lon), "lat", lat)

\* sst.sel(lon=180, lat=40).plot()
In19 ==
    /\ pc = 19
    /\ LET s0 == Begin
           s1 == Stmt(s0, {"sst"}, sel_point_ok(s0.ns.sst, 180, 40), "KeyError",
                      Plot(s0, sel_point(s0.ns.sst, 180, 40)))
       IN  Finish(s1)

\* sst.mean()
In20 ==
    /\ pc = 20
    /\ LET s0 == Begin
           s1 == Stmt(s0, {"sst"}, TRUE, NoErr,
                      Display(s0, mean(s0.ns.sst, AllDims(s0.ns.sst))))
       IN  Finish(s1)

\* a.mean(dim=...) raises ValueError for a dimension the array lacks
reduce_ok(a, drop) == drop \subseteq AllDims(a)

\* sst_time_mean = sst.mean(dim='time'); sst_time_mean.plot(vmin=-2, vmax=30)
In21 ==
    /\ pc = 21
    /\ LET s0 == Begin
           s1 == Stmt(s0, {"sst"}, reduce_ok(s0.ns.sst, {"time"}), "ValueError",
                      Assign(s0, "sst_time_mean", mean(s0.ns.sst, {"time"})))
           s2 == Stmt(s1, {"sst_time_mean"}, TRUE, NoErr, Plot(s1, s1.ns.sst_time_mean))
       IN  Finish(s2)

\* sst_zonal_mean = sst.mean(dim='lon'); sst_zonal_mean.transpose().plot()
In22 ==
    /\ pc = 22
    /\ LET s0 == Begin
           s1 == Stmt(s0, {"sst"}, reduce_ok(s0.ns.sst, {"lon"}), "ValueError",
                      Assign(s0, "sst_zonal_mean", mean(s0.ns.sst, {"lon"})))
           s2 == Stmt(s1, {"sst_zonal_mean"}, TRUE, NoErr,
                      Plot(s1, transpose(s1.ns.sst_zonal_mean)))
       IN  Finish(s2)

\* sst_time_and_zonal_mean = sst.mean(dim=('time', 'lon'))
\* sst_time_and_zonal_mean.plot()
In23 ==
    /\ pc = 23
    /\ LET s0 == Begin
           s1 == Stmt(s0, {"sst"}, reduce_ok(s0.ns.sst, {"time", "lon"}), "ValueError",
                      Assign(s0, "sst_time_and_zonal_mean",
                             mean(s0.ns.sst, {"time", "lon"})))
           s2 == Stmt(s1, {"sst_time_and_zonal_mean"}, TRUE, NoErr,
                      Plot(s1, s1.ns.sst_time_and_zonal_mean))
       IN  Finish(s2)

\* sst_time_and_zonal_mean.plot(y='lat')
In24 ==
    /\ pc = 24
    /\ LET s0 == Begin
           s1 == Stmt(s0, {"sst_time_and_zonal_mean"}, TRUE, NoErr,
                      Plot(s0, s0.ns.sst_time_and_zonal_mean))
       IN  Finish(s1)

\* scalar * array
scale(c, a) == WithValues(a, [i \in DOMAIN a.values |-> RMul(c, a.values[i])])

\* the factor of an area field that leaves out the cosine of the latitude
cos_deg2rad_flat(a) ==
    WithValues(a, [i \in DOMAIN a.values |-> Whole(1)])

\* np.cos(np.deg2rad(a))
cos_deg2rad(a) ==
    WithValues(a, [i \in DOMAIN a.values |-> np_cos(deg2rad(a.values[i]))])

\* R = 6.37e6 (one Earth radius); dphi = np.deg2rad(1.); dlambda = np.deg2rad(1.)
\* dA = R**2 * dphi * dlambda * np.cos(np.deg2rad(ds.lat)); dA.plot()
In25 ==
    /\ pc = 25
    /\ LET s0 == Begin
           s1 == Stmt(s0, {}, TRUE, NoErr, Assign(s0, "R", Float(Whole(1))))
           s2 == Stmt(s1, {"np"}, TRUE, NoErr,
                      Assign(s1, "dphi", Float(deg2rad(Whole(1)))))
           s3 == Stmt(s2, {"np"}, TRUE, NoErr,
                      Assign(s2, "dlambda", Float(deg2rad(Whole(1)))))
           s4 == Stmt(s3, {"R", "dphi", "dlambda", "np", "ds"}, TRUE, NoErr,
                      Assign(s3, "dA",
                          scale(RMul(RMul(RMul(s3.ns.R.v, s3.ns.R.v), s3.ns.dphi.v),
                                     s3.ns.dlambda.v),
                                cos_deg2rad(coordinate(s3.ns.ds, "lat")))))
           s5 == Stmt(s4, {"dA"}, TRUE, NoErr, Plot(s4, s4.ns.dA))
       IN  Finish(s5)

\* the cell as it would run if it displayed the masked area by the name
\* that only the next cell binds: pixel_area
In26_early ==
    /\ pc = 26
    /\ LET s0 == Begin
           s1 == Stmt(s0, {"pixel_area"}, TRUE, NoErr, Display(s0, s0.ns.pixel_area))
       IN  Finish(s1)

\* dA.where(sst[0].notnull())
In26 ==
    /\ pc = 26
    /\ LET s0 == Begin
           s1 == Stmt(s0, {"dA", "sst"}, getitem_ok(s0.ns.sst, 0), "IndexError",
                      Display(s0, where(s0.ns.dA, notnull(getitem_int(s0.ns.sst, 0)))))
       IN  Finish(s1)

\* pixel_area = dA.where(sst[0].notnull()); pixel_area.plot()
In27 ==
    /\ pc = 27
    /\ LET s0 == Begin
           s1 == Stmt(s0, {"dA", "sst"}, getitem_ok(s0.ns.sst, 0), "IndexError",
                      Assign(s0, "pixel_area",
                             where(s0.ns.dA, notnull(getitem_int(s0.ns.sst, 0)))))
           s2 == Stmt(s1, {"pixel_area"}, TRUE, NoErr, Plot(s1, s1.ns.pixel_area))
       IN  Finish(s2)

\* The sums and the quotient are exact; the code's float64 results differ
\* from them by rounding only.
\* total_ocean_area = pixel_area.sum(dim=('lon', 'lat'))
\* sst_weighted_mean = (sst * pixel_area).sum(dim=('lon', 'lat')) / total_ocean_area
\* sst_weighted_mean.plot()
In28 ==
    /\ pc = 28
    /\ LET s0 == Begin
           s1 == Stmt(s0, {"pixel_area"},
                      reduce_ok(s0.ns.pixel_area, {"lon", "lat"}), "ValueError",
                      Assign(s0, "total_ocean_area",
                             sum(s0.ns.pixel_area, {"lon", "lat"})))
           s2 == Stmt(s1, {"sst", "pixel_area", "total_ocean_area"},
                      reduce_ok(mul(s1.ns.sst, s1.ns.pixel_area), {"lon", "lat"}),
                      "ValueError",
                      Assign(s1, "sst_weighted_mean",
                             div(sum(mul(s1.ns.sst, s1.ns.pixel_area), {"lon", "lat"}),
                                 s1.ns.total_ocean_area)))
           s3 == Stmt(s2, {"sst_weighted_mean"}, TRUE, NoErr,
                      Plot(s2, s2.ns.sst_weighted_mean))
       IN  Finish(s3)

\* import cartopy.crs as ccrs; plt.figure(figsize=(12, 8))
\* ax = plt.axes(projection=ccrs.InterruptedGoodeHomolosine()); ax.coastlines()
\* sst[0].plot(transform=ccrs.PlateCarree(), vmin=-2, vmax=30, ...)
In31 ==
    /\ pc = 31
    /\ LET s0 == Begin
           s1 == Stmt(s0, {}, TRUE, NoErr, Assign(s0, "ccrs", Module("cartopy.crs")))
           s2 == Stmt(s1, {"plt"}, TRUE, NoErr, Call(s1))
           s3 == Stmt(s2, {"plt", "ccrs"}, TRUE, NoErr, Assign(s2, "ax", Artist))
           s4 == Stmt(s3, {"ax"}, TRUE, NoErr, Call(s3))
           s5 == Stmt(s4, {"sst", "ccrs"}, getitem_ok(s4.ns.sst, 0), "IndexError",
                      Plot(s4, getitem_int(s4.ns.sst, 0)))
       IN  Finish(s5)

(***************************************************************************)
(* IV. Opening Many Files, V. Groupby, VI. Resample and Rolling            *)
(***************************************************************************)
\* ds_all = xr.open_mfdataset("../datasets/sst/*.nc"); ds_all
In33 ==
    /\ pc = 33
    /\ LET s0 == Begin
           s1 == Stmt(s0, {"xr"}, open_mfdataset_ok(disk), "OSError",
                      Assign(s0, "ds_all", open_mfdataset(disk)))
           s2 == Stmt(s1, {"ds_all"}, TRUE, NoErr, Display(s1, s1.ns.ds_all))
       IN  Finish(s2)

\* ds_all = ds_all.load(); ds_all
In34 ==
    /\ pc = 34
    /\ LET s0 == Begin
           s1 == Stmt(s0, {"ds_all"}, TRUE, NoErr,
                      Assign(load_inplace(s0, s0.ns.ds_all), "ds_all",
                             load(s0.ns.ds_all)))
           s2 == Stmt(s1, {"ds_all"}, TRUE, NoErr, Display(s1, s1.ns.ds_all))
       IN  Finish(s2)

\* sst_clim = ds_all.sst.groupby('time.month').mean(dim='time'); sst_clim
In35 ==
    /\ pc = 35
    /\ LET s0 == Begin
           s1 == Stmt(s0, {"ds_all"}, TRUE, NoErr,
                      Assign(s0, "sst_clim", groupby_month_mean(s0.ns.ds_all.sst)))
           s2 == Stmt(s1, {"sst_clim"}, TRUE, NoErr, Display(s1, s1.ns.sst_clim))
       IN  Finish(s2)

\* (sst_clim[6] - sst_clim[0]).plot()
ClimDifference(clim) == sub(getitem_int(clim, 6), getitem_int(clim, 0))

\* (sst_clim[6] - sst_clim[0]).plot()
\* plt.title('June minus July SST Climatology')
In36 ==
    /\ pc = 36
    /\ LET s0 == Begin
           s1 == Stmt(s0, {"sst_clim"},
                      getitem_ok(s0.ns.sst_clim, 6) /\ getitem_ok(s0.ns.sst_clim, 0),
                      "IndexError",
                      Plot(s0, ClimDifference(s0.ns.sst_clim)))
           s2 == Stmt(s1, {"plt"}, TRUE, NoErr,
                      Title(s1, "June minus July SST Climatology"))
       IN  Finish(s2)

\* sst_ts = ds_all.sst.sel(lon=300, lat=10)
\* sst_ts_annual = sst_ts.resample(time='A').mean(dim='time'); sst_ts_annual
In37 ==
    /\ pc = 37
    /\ LET s0 == Begin
           s1 == Stmt(s0, {"ds_all"}, sel_point_ok(s0.ns.ds_all.sst, 300, 10),
                      "KeyError",
                      Assign(s0, "sst_ts", sel_point(s0.ns.ds_all.sst, 300, 10)))
           s2 == Stmt(s1, {"sst_ts"}, TRUE, NoErr,
                      Assign(s1, "sst_ts_annual", resample_annual_mean(s1.ns.sst_ts)))
           s3 == Stmt(s2, {"sst_ts_annual"}, TRUE, NoErr,
                      Display(s2, s2.ns.sst_ts_annual))
       IN  Finish(s3)

\* sst_ts.plot(); sst_ts_annual.plot()
In38 ==
    /\ pc = 38
    /\ LET s0 == Begin
           s1 == Stmt(s0, {"sst_ts"}, TRUE, NoErr, Plot(s0, s0.ns.sst_ts))
           s2 == Stmt(s1, {"sst_ts_annual"}, TRUE, NoErr, Plot(s1, s1.ns.sst_ts_annual))
       IN  Finish(s2)

\* sst_ts_rolling = sst_ts.rolling(time=24, center=True).mean()
\* sst_ts_annual.plot(marker='o'); sst_ts_rolling.plot()
In39 ==
    /\ pc = 39
    /\ LET s0 == Begin
           s1 == Stmt(s0, {"sst_ts"}, TRUE, NoErr,
                      Assign(s0, "sst_ts_rolling",
                             rolling_mean(s0.ns.sst_ts, "time", Window)))
           s2 == Stmt(s1, {"sst_ts_annual"}, TRUE, NoErr, Plot(s1, s1.ns.sst_ts_annual))
           s3 == Stmt(s2, {"sst_ts_rolling"}, TRUE, NoErr,
                      Plot(s2, s2.ns.sst_ts_rolling))
       IN  Finish(s3)

\* import pandas as pd
\* noaa_nino34 = pd.read_csv("../datasets/sst_indices.csv", index_col='time')['NINO3.4']
\* noaa_nino34.head()
In42 ==
    /\ pc = 42
    /\ LET s0 == Begin
           s1 == Stmt(s0, {}, TRUE, NoErr, Assign(s0, "pd", Module("pandas")))
           s2 == Stmt(s1, {"pd"}, read_csv_ok(disk), "FileNotFoundError",
                      Assign(s1, "noaa_nino34", read_csv(disk)))
           s3 == Stmt(s2, {"noaa_nino34"}, TRUE, NoErr,
                      Display(s2, head(s2.ns.noaa_nino34)))
       IN  Finish(s3)

(***************************************************************************)
(* The session runs the cells top to bottom; a cell that raised leaves the *)
(* kernel alive, and the cells after it run as well.                       *)
(***************************************************************************)
Next ==
    \/ In1 \/ In2 \/ In3 \/ In4 \/ In5 \/ In6 \/ In7 \/ In8 \/ In9 \/ In10
    \/ InComment
    \/ In15 \/ In16 \/ In17 \/ In18 \/ In19 \/ In20 \/ In21 \/ In22 \/ In23
    \/ In24 \/ In25 \/ In26 \/ In27 \/ In28 \/ In31
    \/ In33 \/ In34 \/ In35 \/ In36 \/ In37 \/ In38 \/ In39 \/ In42

Spec == Init /\ [][Next]_vars

(***************************************************************************)
(* Properties.                                                             *)
(***************************************************************************)
\* the sum of the numbers f[p], p in the finite set S
RECURSIVE SetSum(_, _)
SetSum(S, f) ==
    IF S = {} THEN Whole(0)
    ELSE LET p == CHOOSE q \in S : TRUE
         IN  RAdd(f[p], SetSum(S \ {p}, f))

\* the mean of the values present among a[p, i, j], p in the time steps S
MeanOverSteps(a, S, i, j) ==
    LET present == {p \in S : ~IsNaN(a.values[<<p, i, j>>])}
    IN  IF present = {} THEN NaN
        ELSE RDiv(SetSum(present, [p \in present |-> a.values[<<p, i, j>>]]),
                  Whole(Cardinality(present)))

\* C1: once sst_clim is bound it has the dimensions of ds_all.sst with
\* 'month' in the place of 'time', exactly 12 slices labelled 1..12, and
\* slice m holds, at each grid point, the mean over the time steps of all
\* years whose calendar month is m (missing values skipped)
C1_Climatology ==
    Bound(ns, "sst_clim") =>
        LET a == ns.ds_all.sst
            c == ns.sst_clim
        IN  /\ c.dims = <<"month", "lat", "lon">>
            /\ "time" \notin AllDims(c)
            /\ c.shape = <<12, a.shape[2], a.shape[3]>>
            /\ c.coords["month"] = [m \in 1..12 |-> m]
            /\ \A m \in 1..12, i \in 1..a.shape[2], j \in 1..a.shape[3] :
                  c.values[<<m, i, j>>] =
                      MeanOverSteps(a, {p \in 1..a.shape[1] :
                                           month(a.coords["time"][p]) = m}, i, j)

\* C1 witness: a climatology over several years that differ in a month
C1_Witness ==
    /\ Bound(ns, "sst_clim")
    /\ ns.ds_all.sst.shape[1] > 12
    /\ \E i \in 1..2, j \in 1..2 :
          /\ ~IsNaN(ns.sst_clim.values[<<1, i, j>>])
          /\ ns.ds_all.sst.values[<<1, i, j>>] # ns.ds_all.sst.values[<<13, i, j>>]
          /\ ns.sst_clim.values[<<1, i, j>>] # ns.ds_all.sst.values[<<1, i, j>>]

\* C2: once sst_ts_annual is bound its time coordinate holds one label per
\* calendar year from the first to the last year of sst_ts, in order: no
\* year of the span is missing and none appears twice
C2_AnnualResample ==
    Bound(ns, "sst_ts_annual") =>
        LET times == ns.sst_ts.coords["time"]
            first == year(times[1])
            last_ == year(times[Len(times)])
            labels == ns.sst_ts_annual.coords["time"]
        IN  /\ ns.sst_ts_annual.dims = <<"time">>
            /\ ns.sst_ts_annual.shape = <<last_ - first + 1>>
            /\ Len(labels) = last_ - first + 1
            /\ \A k \in 1..Len(labels) : year(labels[k]) = first + k - 1
            /\ \A y \in first..last_ :
                  Cardinality({k \in 1..Len(labels) : year(labels[k]) = y}) = 1

\* C2 witness: an annual series over a span with a year that has no file
C2_Witness ==
    /\ Bound(ns, "sst_ts_annual")
    /\ disk.years = {FirstYear, FirstYear + 2}
    /\ ns.sst_ts_annual.shape = <<3>>
    /\ IsNaN(ns.sst_ts_annual.values[<<2>>])
    /\ ~IsNaN(ns.sst_ts_annual.values[<<3>>])

\* the grid points where sst is missing at time step t
NullPoints(a, t) ==
    {ij \in Indices(<<a.shape[2], a.shape[3]>>) : IsNaN(a.values[<<t>> \o ij])}

\* sst.mean(dim=('lon', 'lat'))
UnweightedMean == mean(ns.sst, {"lon", "lat"})

\* sst.mean(dim='lon'): the mean of each latitude row at each time step
RowMean == mean(ns.sst, {"lon"})

\* a margin far above the rounding of float64 sums and of the tabulated
\* cosines
Tol == Rat(1, 100)

\* two values are both present and further apart than the margin
Differs(a, b) ==
    /\ ~IsNaN(a)
    /\ ~IsNaN(b)
    /\ ~(RLeq(RSub(a, b), Tol) /\ RLeq(RSub(b, a), Tol))

\* C3: the area-weighted spatial mean of sst differs from the unweighted
\* spatial mean of the same field: the two series differ at some time
\* step, and they differ at every time step where the two latitude rows of
\* sst have different means and the missing points are those of sst[0]
C3_WeightedMean ==
    Bound(ns, "sst_weighted_mean") =>
        /\ ns.sst_weighted_mean.dims = UnweightedMean.dims
        /\ \E t \in 1..ns.sst.shape[1] :
              Differs(ns.sst_weighted_mean.values[<<t>>], UnweightedMean.values[<<t>>])
        /\ \A t \in 1..ns.sst.shape[1] :
              (/\ NullPoints(ns.sst, t) = NullPoints(ns.sst, 1)
               /\ Differs(RowMean.values[<<t, 1>>], RowMean.values[<<t, 2>>]))
                  => Differs(ns.sst_weighted_mean.values[<<t>>],
                             UnweightedMean.values[<<t>>])

\* C3 witness: a field with missing points whose latitude rows have
\* different means at a time step, where the weighting changes the mean
C3_Witness ==
    /\ Bound(ns, "sst_weighted_mean")
    /\ NullPoints(ns.sst, 1) # {}
    /\ \E t \in 1..ns.sst.shape[1] :
          /\ NullPoints(ns.sst, t) = NullPoints(ns.sst, 1)
          /\ Differs(RowMean.values[<<t, 1>>], RowMean.values[<<t, 2>>])
          /\ Differs(ns.sst_weighted_mean.values[<<t>>], UnweightedMean.values[<<t>>])

\* C4: the field cell 17 selects by the date label and plots has no time
\* dimension: it is the 2-D (lat, lon) field of the grid the dataset
\* declares, holding the values of the time step with that date
C4_SelectDate ==
    (last.cell = 17 /\ last.err = NoErr) =>
        LET a == fig.layers[1]
            p == Pos(ns.ds.coords["time"], Date(1960, 6, 15))
        IN  /\ Len(fig.layers) = 1
            /\ a.dims = <<"lat", "lon">>
            /\ "time" \notin AllDims(a)
            /\ a.shape = <<Len(ns.ds.coords["lat"]), Len(ns.ds.coords["lon"])>>
            /\ \A ij \in Indices(a.shape) : a.values[ij] = ns.sst.values[<<p>> \o ij]

\* C4 witness: cell 17 has drawn the field of June 1960
C4_Witness ==
    /\ last.cell = 17
    /\ last.err = NoErr
    /\ Len(fig.layers) = 1
    /\ \E ij \in DOMAIN fig.layers[1].values : ~IsNaN(fig.layers[1].values[ij])

\* the dimensions of a without those in drop, in a's order
DimsWithout(a, drop) == SelectSeq(a.dims, LAMBDA d : d \notin drop)

\* C5: every reduction of the notebook yields the dimensions of its input
\* without the named ones: (lat, lon) for the time mean, (time, lat) for the
\* zonal mean, (lat) for the time and zonal mean, none for the total ocean
\* area, (time) for the weighted mean, and none for sst.mean()
C5_ReductionDims ==
    /\ Bound(ns, "sst_time_mean") =>
          /\ ns.sst_time_mean.dims = <<"lat", "lon">>
          /\ ns.sst_time_mean.dims = DimsWithout(ns.sst, {"time"})
          /\ Len(ns.sst_time_mean.shape) = 2
    /\ Bound(ns, "sst_zonal_mean") =>
          /\ ns.sst_zonal_mean.dims = <<"time", "lat">>
          /\ ns.sst_zonal_mean.dims = DimsWithout(ns.sst, {"lon"})
          /\ Len(ns.sst_zonal_mean.shape) = 2
    /\ Bound(ns, "sst_time_and_zonal_mean") =>
          /\ ns.sst_time_and_zonal_mean.dims = <<"lat">>
          /\ ns.sst_time_and_zonal_mean.dims = DimsWithout(ns.sst, {"time", "lon"})
          /\ Len(ns.sst_time_and_zonal_mean.shape) = 1
    /\ Bound(ns, "total_ocean_area") =>
          /\ ns.total_ocean_area.dims = <<>>
          /\ ns.total_ocean_area.dims = DimsWithout(ns.pixel_area, {"lon", "lat"})
          /\ DOMAIN ns.total_ocean_area.values = {<<>>}
    /\ Bound(ns, "sst_weighted_mean") =>
          /\ ns.sst_weighted_mean.dims = <<"time">>
          /\ ns.sst_weighted_mean.shape = <<ns.sst.shape[1]>>
    /\ 20 \in DOMAIN Out =>
          /\ Out[20].dims = <<>>
          /\ Out[20].dims = DimsWithout(ns.sst, AllDims(ns.sst))
          /\ DOMAIN Out[20].values = {<<>>}

\* C5 witness: all the reductions have run
C5_Witness ==
    /\ 20 \in DOMAIN Out
    /\ Bound(ns, "sst_time_mean")
    /\ Bound(ns, "sst_zonal_mean")
    /\ Bound(ns, "sst_time_and_zonal_mean")
    /\ Bound(ns, "total_ocean_area")
    /\ Bound(ns, "sst_weighted_mean")
    /\ ~IsNaN(Out[20].values[<<>>])

\* C6: sst_ts_rolling has the dimensions, the length and the time
\* coordinate of sst_ts, and holds a missing value at every position whose
\* centred 24-step window reaches outside the series
C6_RollingLength ==
    Bound(ns, "sst_ts_rolling") =>
        LET n == ns.sst_ts.shape[1]
        IN  /\ ns.sst_ts_rolling.dims = ns.sst_ts.dims
            /\ ns.sst_ts_rolling.shape = ns.sst_ts.shape
            /\ ns.sst_ts_rolling.coords = ns.sst_ts.coords
            /\ DOMAIN ns.sst_ts_rolling.values = DOMAIN ns.sst_ts.values
            /\ \A p \in 1..n :
                  (p - 12 < 1 \/ p + 11 > n) => IsNaN(ns.sst_ts_rolling.values[<<p>>])

\* C6 witness: a series longer than the window, with rolling means inside
\* and missing values at both edges
C6_Witness ==
    /\ Bound(ns, "sst_ts_rolling")
    /\ ns.sst_ts.shape[1] > Window
    /\ IsNaN(ns.sst_ts_rolling.values[<<1>>])
    /\ IsNaN(ns.sst_ts_rolling.values[<<ns.sst_ts.shape[1]>>])
    /\ \E p \in 1..ns.sst_ts.shape[1] : ~IsNaN(ns.sst_ts_rolling.values[<<p>>])

\* the number of statements of the given kind among the first n of cell c
CountKind(c, n, kind) ==
    Cardinality({k \in 1..n : Statements(c)[k][1] = kind})

\* C7: a step in which a cell fails stops at the failing statement: the
\* cell completed fewer statements than it has, every name bound before
\* the cell keeps its value, a name changes only by an assignment the cell
\* completed, nothing is displayed, and the figure holds what the completed
\* statements drew
C7_FailureHalts ==
    [][last'.err # NoErr =>
          LET st == Statements(last'.cell)
              n == last'.n
          IN  /\ last'.cell = pc
              /\ n < Len(st)
              /\ \A name \in Names : Bound(ns, name) => ns'[name] = ns[name]
              /\ \A name \in Names :
                    Bound(ns', name) /\ ~Bound(ns, name)
                        => \E k \in 1..n : st[k] = <<"assign", name>>
              /\ \A k \in 1..n :
                    st[k][1] = "assign" => Bound(ns', st[k][2])
              /\ Out' = Out
              /\ Len(fig'.layers) = CountKind(last'.cell, n, "plot")
              /\ (fig'.title # "") = (CountKind(last'.cell, n, "title") > 0)
      ]_vars

\* C7 witness: cell 37 failed on a bad label in its first statement, with
\* names bound by earlier cells and the names of its statements unbound
C7_Witness ==
    /\ last.cell = 37
    /\ last.err = "KeyError"
    /\ last.n = 0
    /\ Bound(ns, "ds_all")
    /\ Bound(ns, "sst_clim")
    /\ ~Bound(ns, "sst_ts")
    /\ ~Bound(ns, "sst_ts_annual")

\* C8 as stated: every transformation, load included, leaves its operand
\* unchanged. The operand of load is the collection that cell 33 opened and
\* displayed, so Out[33] stays what open_mfdataset returned, and ds, sst
\* and ds_all.sst keep the values, dimensions and coordinates they had
\* when opened.
C8_Original ==
    /\ Bound(ns, "ds") => ns.ds = open_dataset(disk)
    /\ Bound(ns, "sst") => ns.sst = open_dataset(disk).sst
    /\ Bound(ns, "ds_all") =>
          /\ ns.ds_all.sst = open_mfdataset(disk).sst
          /\ ns.ds_all.coords = open_mfdataset(disk).coords
    /\ 33 \in DOMAIN Out => Out[33] = open_mfdataset(disk)

\* C8: whatever cells have run, ds and sst hold the values, dimensions and
\* coordinates decoded from the 1960 file, and ds_all.sst and the collection
\* displayed by cell 33 those decoded from all the files; load returns its
\* operand, loaded in place: once cell 34 has run, the collection displayed
\* by cell 33 is the loaded dataset that ds_all and Out[34] hold
C8_OperandsUnchanged ==
    /\ Bound(ns, "ds") => ns.ds = open_dataset(disk)
    /\ Bound(ns, "sst") => ns.sst = open_dataset(disk).sst
    /\ Bound(ns, "ds_all") =>
          /\ ns.ds_all.sst = open_mfdataset(disk).sst
          /\ ns.ds_all.coords = open_mfdataset(disk).coords
    /\ 33 \in DOMAIN Out =>
          /\ Out[33].sst = open_mfdataset(disk).sst
          /\ Out[33].coords = open_mfdataset(disk).coords
          /\ Out[33] = ns.ds_all
          /\ Out[33].chunked <=> pc = 34
    /\ 34 \in DOMAIN Out => Out[34] = Out[33]

\* C8 witness: every cell has run without an error on several files
C8_Witness ==
    /\ pc = NumCells + 1
    /\ \A name \in Names : Bound(ns, name)
    /\ ~ns.ds_all.chunked
    /\ 33 \in DOMAIN Out /\ ~Out[33].chunked
    /\ ns.ds_all.sst.shape[1] > 12
    /\ ns.sst.shape[1] = 12

\* C9 as stated: the field drawn under the title 'June minus July SST
\* Climatology' is the month-6 slice of sst_clim minus the month-7 slice
C9_JuneMinusJuly ==
    (last.cell = 36 /\ last.err = NoErr) =>
        /\ fig.title = "June minus July SST Climatology"
        /\ fig.layers[1] = sub(sel(ns.sst_clim, "month", 6), sel(ns.sst_clim, "month", 7))

\* C10 as stated: f[10] is the 10th item of f, the last of the items f[:10]
C10_TenthItem ==
    (7 \in DOMAIN Out /\ 8 \in DOMAIN Out) =>
        Out[7].values[<<>>] = Out[8].values[<<Out[8].shape[1]>>]

\* the grid points whose weight enters the numerator of the weighted
\* mean at time step t: sst[t] and pixel_area are both present there
WeightedPoints(t) ==
    {ij \in DOMAIN ns.pixel_area.values :
        /\ ~IsNaN(ns.pixel_area.values[ij])
        /\ ~IsNaN(ns.sst.values[<<t>> \o ij])}

\* the sum of the weights applied in the numerator at time step t
AppliedWeight(t) ==
    SetSum(WeightedPoints(t), [ij \in WeightedPoints(t) |-> ns.pixel_area.values[ij]])

\* the values of sst present at time step t
PresentValues(t) ==
    {ns.sst.values[<<t>> \o ij] :
        ij \in Indices(<<ns.sst.shape[2], ns.sst.shape[3]>>) \ NullPoints(ns.sst, t)}

\* C11 as stated: at every time step the weights applied in the numerator
\* of sst_weighted_mean add up to total_ocean_area, and the result lies
\* between the least and the greatest value of sst present at that step
C11_TrueWeightedAverage ==
    Bound(ns, "sst_weighted_mean") =>
        \A t \in 1..ns.sst.shape[1] :
            /\ AppliedWeight(t) = ns.total_ocean_area.values[<<>>]
            /\ \A v \in PresentValues(t) :
                  (\A w \in PresentValues(t) : RLeq(v, w))
                      => RLeq(v, ns.sst_weighted_mean.values[<<t>>])
            /\ \A v \in PresentValues(t) :
                  (\A w \in PresentValues(t) : RLeq(w, v))
                      => RLeq(ns.sst_weighted_mean.values[<<t>>], v)

\* the names the cells before cell c assign, read off the cells' statements;
\* a blank exercise cell or a commented-out %load cell assigns none
AssignedBefore(c) ==
    UNION {{Statements(b)[k][2] :
                k \in {j \in DOMAIN Statements(b) : Statements(b)[j][1] = "assign"}} :
           b \in 1..(c - 1)}

\* no cell before cell c failed before one of its assignments: every name
\* the earlier cells assign is bound
EarlierCellsRan(c) == \A name \in AssignedBefore(c) : Bound(ns, name)

\* C12: evaluated top to bottom, a cell finds every name it reads bound as
\* long as the cells before it ran: a NameError is raised only after an
\* earlier cell failed and left a name it assigns unbound. The exercise
\* cells execute no statement, bind nothing and never fail.
C12_NamesBoundBeforeRead ==
    /\ last.err = "NameError" => ~EarlierCellsRan(last.cell)
    /\ last.cell \in CommentCells =>
          /\ last.err = NoErr
          /\ last.n = 0
          /\ AssignedBefore(last.cell + 1) = AssignedBefore(last.cell)
    /\ (pc = NumCells + 1 /\ EarlierCellsRan(pc)) =>
          \A name \in Names : Bound(ns, name)

\* every cell has been evaluated, none failed, and every name of the
\* notebook is bound by the cells that assign it
C12_Witness ==
    /\ pc = NumCells + 1
    /\ last.cell = NumCells
    /\ last.err = NoErr
    /\ EarlierCellsRan(pc)
    /\ AssignedBefore(pc) = Names
    /\ \A c \in CommentCells : AssignedBefore(c + 1) = AssignedBefore(c)

=============================================================================
